---- MODULE Spec2Model ----
(***************************************************************************)
(* Task lifecycle of the insurance group-order interpretation backend:     *)
(* the form_data table (core/database.py), FormDataService                 *)
(* (core/form_service.py), the submission endpoint start_interpretation    *)
(* and the client endpoints (api/views.py) and the Celery worker           *)
(* process_interpretation_task (api/tasks.py).                             *)
(*                                                                         *)
(* Status labels of the source are written in ASCII:                       *)
(*   "jieduzhong" = in progress (pending and processing share this label), *)
(*   "wancheng"   = completed, "shibai" = failed.                          *)
(* A progress string "N%" is held as the number N: the code only formats   *)
(* it (f"{int(...)}%") and never parses it back.                           *)
(***************************************************************************)
EXTENDS Integers, Sequences, FiniteSets, TLC

\* ------------------------------------------------------------------ bounds
\* number of submissions, each with its own worker task
NumSubs == 1
\* number of client requests (edit / delete) in a run
MaxClientOps == 2
\* service harness: concurrent callers, and calls made in a run
NumCallers == 2
MaxCalls == 3
\* service harness: calls made in a sequential run
MaxSeqCalls == 2
\* longest task_ids list of a batch delete
MaxBatch == 3
\* listing harness: rows of the store, and the pages and page sizes asked for
MaxRows == 3
MaxPage == 2
\* listing harness: requests served in a run (a listing leaves the store as it is)
MaxQueryCalls == 1

\* ------------------------------------------------------- program constants
total_steps == 10
max_retries == 3
MaxImages == 30

StInProgress == "jieduzhong"
StDone == "wancheng"
StFailed == "shibai"

\* Python None / SQL NULL
None == "None"
\* request.FILES.get('pdf_file') when no contract file is uploaded
NoFile == <<>>
\* no lifecycle write has reached a row of the task id
NoWrite == <<>>

Subs == 1..NumSubs
Callers == 1..NumCallers
\* task ids: one per submission, and one more that no submission generates
TaskIds == 1..(NumSubs + 1)
\* task_id = f"T{timestamp}{uuid4[:4]}": every submission generates its own
TaskIdOf(s) == s
\* contents a client may send to update_form_content
Contents == {"", "x"}

\* task_name, company, scene of a submission
MetaOf(s) == [task_name |-> s, company |-> "co", scene |-> "sc"]

\* json.dumps(result) of the worker, and of the ImportError fallback of the view
WorkerResult(t) == <<"result1", "result2", "result3", "result4">>[t]
FallbackResult(t) == <<"fallback1", "fallback2", "fallback3", "fallback4">>[t]

\* the `result` dictionary the worker builds: its task_id, task_name, company
\* and scene entries are the task's arguments
Result(t, meta) == [task_id |-> t, meta |-> meta]
\* json.dumps(result, ensure_ascii=False, indent=2)
JsonDumps(result) == WorkerResult(result.task_id)
\* the task has returned nothing
NoResult == <<>>
\* the request harness serves no request
NoReq == [op |-> "none", tid |-> 0, content |-> None, existed |-> FALSE]
NoResp == [op |-> "none"]

VARIABLES
  table,      \* form_data: sequence of rows in insertion order
  nextId,     \* AUTO_INCREMENT counter of form_data.id
  celery,     \* whether insurance_project.api.tasks can be imported
  vpc,        \* position of each start_interpretation request
  vexisting,  \* existing_form seen by the request's handle_task_start
  vresp,      \* HTTP status answered to each submission (0 = none yet)
  wpc,        \* position of each worker task
  step,       \* loop variable `step` of the current attempt
  retries,    \* self.request.retries of the current attempt
  wexisting,  \* existing_form seen by the worker's handle_task_error
  clientOps,  \* client requests made so far
  deleted,    \* history: a client deleted the task's row while an attempt was executing
  attempts,   \* history: executions started per task
  calls,      \* service harness: the call each caller is making
  ncalls,     \* service harness: calls made so far
  lastOp,     \* service harness, history: the last call and the one before it
  startFailed, \* history: handle_task_start of the submission raised
  lastEdit,   \* history: content of the last applied client edit per task id
  lastWrite,  \* history: fields of the last applied lifecycle write per task id
  reported,   \* history: progress of the attempt's last handle_task_progress that returned
  returned,   \* history: the result each worker task returned
  req,        \* request harness: the request being served
  resp        \* request harness: the answer to it

\* what only the service harness and the failing store operations change
restVars == <<calls, ncalls, lastOp, startFailed>>
\* what only the worker's observers and the request harness change
obsVars == <<reported, returned, req, resp>>
vars == <<table, nextId, celery, vpc, vexisting, vresp, wpc, step, retries,
          wexisting, clientOps, deleted, attempts, calls, ncalls, lastOp, startFailed,
          lastEdit, lastWrite, reported, returned, req, resp>>

\* ------------------------------------------------------------------ store
\* SELECT ... WHERE task_id = t
SelectFormByTaskId(tbl, t) == SelectSeq(tbl, LAMBDA r : r.task_id = t)

RowsOf(tbl, t) == {i \in DOMAIN tbl : tbl[i].task_id = t}

\* INSERT INTO form_data (task_id, task_name, company, scene, progress, status, llm_content)
\* create_time is DEFAULT CURRENT_TIMESTAMP: a later insert never gets an
\* earlier time, and the insertion counter stands for the clock
InsertFormData(tbl, id, t, meta, progress, status, llm) ==
  Append(tbl, [id |-> id, task_id |-> t, meta |-> meta, progress |-> progress,
               status |-> status, llm_content |-> llm, update_content |-> None,
               create_time |-> id])

\* variant: the status update writes every column, the edited content too
UpdateFormStatus_AllColumns(tbl, t, meta, progress, status, llm) ==
  [i \in DOMAIN tbl |->
     IF tbl[i].task_id = t
       THEN [tbl[i] EXCEPT !.meta = meta, !.progress = progress, !.status = status,
                           !.llm_content = llm, !.update_content = None]
       ELSE tbl[i]]

\* UPDATE form_data SET task_name, company, scene, progress, status, llm_content WHERE task_id
UpdateFormStatus(tbl, t, meta, progress, status, llm) ==
  [i \in DOMAIN tbl |->
     IF tbl[i].task_id = t
       THEN [tbl[i] EXCEPT !.meta = meta, !.progress = progress,
                           !.status = status, !.llm_content = llm]
       ELSE tbl[i]]

\* variant: the edit is written to the llm_content column
UpdateFormContent_LlmColumn(tbl, t, content) ==
  [i \in DOMAIN tbl |->
     IF tbl[i].task_id = t THEN [tbl[i] EXCEPT !.llm_content = content] ELSE tbl[i]]

\* UPDATE form_data SET update_content WHERE task_id
UpdateFormContent(tbl, t, content) ==
  [i \in DOMAIN tbl |->
     IF tbl[i].task_id = t THEN [tbl[i] EXCEPT !.update_content = content] ELSE tbl[i]]

\* DELETE FROM form_data WHERE task_id = t
DeleteFormByTaskId(tbl, t) == SelectSeq(tbl, LAMBDA r : r.task_id # t)

\* affected_rows = cursor.execute(sql, params) of an UPDATE ... WHERE task_id:
\* the connection is opened without CLIENT.FOUND_ROWS, so MySQL counts the rows
\* whose value the statement changed
AffectedByUpdate(old, new, t) ==
  Cardinality({i \in RowsOf(old, t) : new[i] # old[i]})

\* affected_rows of a DELETE: the rows removed
AffectedByDelete(old, new) == Len(old) - Len(new)

\* DELETE FROM form_data WHERE task_id IN ids
DeleteFormBatch(tbl, ids) == SelectSeq(tbl, LAMBDA r : r.task_id \notin ids)

\* ---------------------------------------------------------------- service
\* `llm_content or ''`
LlmOrEmpty(llm) == IF llm = None THEN "" ELSE llm

CreateForm(tbl, id, t, meta, progress, status, llm) ==
  InsertFormData(tbl, id, t, meta, progress, status, LlmOrEmpty(llm))

\* variant: update_task_status inserts the row when the task id has none
UpdateTaskStatus_Upsert(tbl, t, meta, progress, status, llm) ==
  IF RowsOf(tbl, t) = {}
    THEN InsertFormData(tbl, Len(tbl) + 1, t, meta, progress, status, LlmOrEmpty(llm))
    ELSE UpdateFormStatus(tbl, t, meta, progress, status, LlmOrEmpty(llm))

\* variant: a call without a result keeps the result the row holds
UpdateTaskStatus_KeepLlm(tbl, t, meta, progress, status, llm) ==
  [i \in DOMAIN tbl |->
     IF tbl[i].task_id = t
       THEN [tbl[i] EXCEPT !.meta = meta, !.progress = progress, !.status = status,
                           !.llm_content = IF llm = None THEN @ ELSE llm]
       ELSE tbl[i]]

UpdateTaskStatus(tbl, t, meta, progress, status, llm) ==
  UpdateFormStatus(tbl, t, meta, progress, status, LlmOrEmpty(llm))

\* existing_form = get_form_by_task_id(task_id): result[0] if result else None
GetFormByTaskId(tbl, t) == SelectFormByTaskId(tbl, t) # <<>>

\* variant: handle_task_start inserts without looking at existing_form
HandleTaskStartWrite_AlwaysInsert(tbl, id, t, meta, existing) ==
  InsertFormData(tbl, id, t, meta, 0, StInProgress, "")

\* the store write of handle_task_start, given the existing_form it found
HandleTaskStartWrite(tbl, id, t, meta, existing) ==
  IF existing
    THEN UpdateTaskStatus(tbl, t, meta, 0, StInProgress, None)
    ELSE CreateForm(tbl, id, t, meta, 0, StInProgress, None)

\* variant: handle_task_progress passes the status of handle_task_error
HandleTaskProgress_Failed(tbl, t, meta, progress) ==
  UpdateFormStatus(tbl, t, meta, progress, StFailed, "")

HandleTaskProgress(tbl, t, meta, progress) ==
  UpdateTaskStatus(tbl, t, meta, progress, StInProgress, None)

\* variant: handle_task_success marks the row completed without the result
HandleTaskSuccess_NoResult(tbl, t, meta, llm) ==
  UpdateTaskStatus(tbl, t, meta, 100, StDone, None)

HandleTaskSuccess(tbl, t, meta, llm) ==
  UpdateTaskStatus(tbl, t, meta, 100, StDone, llm)

\* variant: handle_task_error updates only, like progress and success
HandleTaskErrorWrite_UpdateOnly(tbl, id, t, meta, progress, existing) ==
  UpdateFormStatus(tbl, t, meta, progress, StFailed, "")

\* the store write of handle_task_error, given the existing_form it found
HandleTaskErrorWrite(tbl, id, t, meta, progress, existing) ==
  IF existing
    THEN UpdateTaskStatus(tbl, t, meta, progress, StFailed, None)
    ELSE CreateForm(tbl, id, t, meta, progress, StFailed, None)

\* AUTO_INCREMENT advances when a row is inserted
IdAfter(old, new, id) == IF Len(new) > Len(old) THEN id + 1 ELSE id

\* f"{int((step / total_steps) * 100)}%"
Pct(s) == (s * 100) \div total_steps

\* ------------------------------------------------------ submission request
\* file names are sequences of characters
Lower(c) ==
  CASE c = "P" -> "p" [] c = "D" -> "d" [] c = "F" -> "f" [] c = "N" -> "n"
    [] c = "G" -> "g" [] c = "J" -> "j" [] c = "E" -> "e" [] OTHER -> c

\* name.lower()
LowerName(name) == [i \in DOMAIN name |-> Lower(name[i])]

\* name.endswith(ext)
EndsWith(name, ext) ==
  /\ Len(name) >= Len(ext)
  /\ SubSeq(name, Len(name) - Len(ext) + 1, Len(name)) = ext

ExtPdf == <<".", "p", "d", "f">>
img_extensions == {<<".", "p", "n", "g">>, <<".", "j", "p", "g">>, <<".", "j", "p", "e", "g">>}

PdfNames == {<<"c", ".", "p", "d", "f">>, <<"c", ".", "P", "D", "F">>,
             <<"c", ".", "d", "o", "c", "x">>}
ImgNames == {<<"q", ".", "p", "n", "g">>, <<"q", ".", "J", "P", "G">>,
             <<"q", ".", "j", "p", "e", "g">>, <<"q", ".", "g", "i", "f">>}

\* upload sets: every list of up to 2 images, and uniform lists of 30 and 31
ImageLists ==
  UNION {[1..n -> ImgNames] : n \in 0..2}
    \cup {[i \in 1..n |-> nm] : n \in {MaxImages, MaxImages + 1}, nm \in ImgNames}

\* request.data / request.FILES of a submission; a field is TRUE when it is
\* present and non-empty, pdf_file is NoFile when no contract file is uploaded
Requests ==
  [task_name : BOOLEAN, company : BOOLEAN, scene : BOOLEAN,
   pdf_file : PdfNames \cup {NoFile}, png_files : ImageLists]

\* variant: the extensions are compared without lower()
Validate_CaseSensitive(r) ==
  IF ~(r.task_name /\ r.company /\ r.scene) THEN 400
  ELSE IF r.pdf_file = NoFile /\ Len(r.png_files) = 0 THEN 400
  ELSE IF r.pdf_file # NoFile /\ ~EndsWith(r.pdf_file, ExtPdf) THEN 400
  ELSE IF Len(r.png_files) # 0 /\ Len(r.png_files) > MaxImages THEN 400
  ELSE IF \E i \in DOMAIN r.png_files :
            ~\E ext \in img_extensions : EndsWith(r.png_files[i], ext)
    THEN 400
  ELSE 0

\* the validation of start_interpretation: 400, or 0 when the request goes on
Validate(r) ==
  IF ~(r.task_name /\ r.company /\ r.scene) THEN 400
  ELSE IF r.pdf_file = NoFile /\ Len(r.png_files) = 0 THEN 400
  ELSE IF r.pdf_file # NoFile /\ ~EndsWith(LowerName(r.pdf_file), ExtPdf) THEN 400
  ELSE IF Len(r.png_files) # 0 /\ Len(r.png_files) > MaxImages THEN 400
  ELSE IF \E i \in DOMAIN r.png_files :
            ~\E ext \in img_extensions : EndsWith(LowerName(r.png_files[i]), ext)
    THEN 400
  ELSE 0

\* ------------------------------------------------------------- histories
\* a caller of the service that is between two calls
Idle == [pc |-> "idle", op |-> "none", tid |-> 0, progress |-> 0, existing |-> FALSE]
\* a service call: its name, task id and progress argument, the number of rows
\* of the task id before it, and the name and task id of the call before it
NoOp == [op |-> "none", tid |-> 0, progress |-> 0, before |-> 0,
         prev |-> "none", ptid |-> 0]

Called(last, tbl, op, t, p) ==
  [op |-> op, tid |-> t, progress |-> p, before |-> Cardinality(RowsOf(tbl, t)),
   prev |-> last.op, ptid |-> last.tid]

\* fields of a lifecycle write that reached a row of task id t
Written(lw, new, t, progress, status, llm) ==
  IF RowsOf(new, t) # {} THEN [lw EXCEPT ![t] = <<progress, status, llm>>] ELSE lw

\* a freshly inserted row has no edited content
Edited(le, old, new, t) ==
  IF Len(new) > Len(old) THEN [le EXCEPT ![t] = None] ELSE le

\* ------------------------------------------------------------------ Init
InitCommon ==
  /\ table = <<>>
  /\ nextId = 1
  /\ celery \in BOOLEAN
  /\ vpc = [s \in Subs |-> "idle"]
  /\ vexisting = [s \in Subs |-> FALSE]
  /\ vresp = [s \in Subs |-> 0]
  /\ wpc = [s \in Subs |-> "none"]
  /\ step = [s \in Subs |-> 0]
  /\ retries = [s \in Subs |-> 0]
  /\ wexisting = [s \in Subs |-> FALSE]
  /\ clientOps = 0
  /\ deleted = [s \in Subs |-> FALSE]
  /\ attempts = [s \in Subs |-> 0]
  /\ calls = [c \in Callers |-> Idle]
  /\ ncalls = 0
  /\ lastOp = NoOp
  /\ startFailed = [s \in Subs |-> FALSE]
  /\ lastEdit = [t \in TaskIds |-> None]
  /\ lastWrite = [t \in TaskIds |-> NoWrite]
  /\ reported = [s \in Subs |-> <<>>]
  /\ returned = [s \in Subs |-> NoResult]
  /\ req = NoReq
  /\ resp = NoResp

Init == InitCommon

\* ------------------------------------------------- start_interpretation
\* the request arrives and is validated; the task id is generated
Submit(s) ==
  /\ vpc[s] = "idle"
  /\ \E code \in {Validate(r) : r \in Requests} :
       IF code = 400
         THEN /\ vresp' = [vresp EXCEPT ![s] = 400]
              /\ vpc' = [vpc EXCEPT ![s] = "done"]
         ELSE /\ vresp' = vresp
              /\ vpc' = [vpc EXCEPT ![s] = "start_find"]
  /\ UNCHANGED <<table, nextId, celery, vexisting, wpc, step, retries,
                 wexisting, clientOps, deleted, attempts, restVars, obsVars, lastEdit, lastWrite>>

\* handle_task_start: existing_form = get_form_by_task_id(task_id)
ViewStartFind(s) ==
  /\ vpc[s] = "start_find"
  /\ vexisting' = [vexisting EXCEPT ![s] = GetFormByTaskId(table, TaskIdOf(s))]
  /\ vpc' = [vpc EXCEPT ![s] = "start_write"]
  /\ UNCHANGED <<table, nextId, celery, vresp, wpc, step, retries,
                 wexisting, clientOps, deleted, attempts, restVars, obsVars, lastEdit, lastWrite>>

\* handle_task_start: update_task_status or create_form
ViewStartWrite(s) ==
  /\ vpc[s] = "start_write"
  /\ table' = HandleTaskStartWrite(table, nextId, TaskIdOf(s), MetaOf(s), vexisting[s])
  /\ nextId' = IdAfter(table, table', nextId)
  /\ vpc' = [vpc EXCEPT ![s] = "enqueue"]
  /\ lastWrite' = Written(lastWrite, table', TaskIdOf(s), 0, StInProgress, "")
  /\ lastEdit' = Edited(lastEdit, table, table', TaskIdOf(s))
  /\ UNCHANGED <<celery, vexisting, vresp, wpc, step, retries,
                 wexisting, clientOps, deleted, attempts, restVars, obsVars>>

\* process_interpretation_task.delay(...), then 202
ViewEnqueue(s) ==
  /\ vpc[s] = "enqueue"
  /\ celery
  /\ wpc' = [wpc EXCEPT ![s] = "queued"]
  /\ vresp' = [vresp EXCEPT ![s] = 202]
  /\ vpc' = [vpc EXCEPT ![s] = "done"]
  /\ UNCHANGED <<table, nextId, celery, vexisting, step, retries,
                 wexisting, clientOps, deleted, attempts, restVars, obsVars, lastEdit, lastWrite>>

\* except ImportError: handle_task_success directly, then 202
ViewFallback(s) ==
  /\ vpc[s] = "enqueue"
  /\ ~celery
  /\ table' = HandleTaskSuccess(table, TaskIdOf(s), MetaOf(s), FallbackResult(TaskIdOf(s)))
  /\ lastWrite' = Written(lastWrite, table', TaskIdOf(s), 100, StDone, FallbackResult(TaskIdOf(s)))
  /\ vresp' = [vresp EXCEPT ![s] = 202]
  /\ vpc' = [vpc EXCEPT ![s] = "done"]
  /\ UNCHANGED <<nextId, celery, vexisting, wpc, step, retries,
                 wexisting, clientOps, deleted, attempts, restVars, obsVars, lastEdit>>

\* ------------------------------------------- process_interpretation_task
\* the queue delivers the task (first delivery or retry) and an attempt begins
WorkerBegin(s) ==
  /\ wpc[s] = "queued"
  /\ wpc' = [wpc EXCEPT ![s] = "run"]
  /\ step' = [step EXCEPT ![s] = 0]
  /\ attempts' = [attempts EXCEPT ![s] = @ + 1]
  /\ reported' = [reported EXCEPT ![s] = <<>>]
  /\ UNCHANGED <<table, nextId, celery, vpc, vexisting, vresp, retries,
                 wexisting, clientOps, deleted, restVars, returned, req, resp, lastEdit,
                 lastWrite>>

\* one iteration of the step loop: handle_task_progress, then either the next
\* iteration or the simulated processing error
WorkerStep(s, fails) ==
  /\ wpc[s] = "run"
  /\ step[s] < total_steps
  /\ step' = [step EXCEPT ![s] = @ + 1]
  /\ table' = HandleTaskProgress(table, TaskIdOf(s), MetaOf(s), Pct(step'[s]))
  /\ lastWrite' = Written(lastWrite, table', TaskIdOf(s), Pct(step'[s]), StInProgress, "")
  /\ reported' = [reported EXCEPT ![s] = <<Pct(step'[s])>>]
  /\ wpc' = [wpc EXCEPT ![s] = IF fails THEN "err_find" ELSE "run"]
  /\ UNCHANGED <<nextId, celery, vpc, vexisting, vresp, retries,
                 wexisting, clientOps, deleted, attempts, restVars, returned, req, resp,
                 lastEdit>>

WorkerStepOk(s) == WorkerStep(s, FALSE)

WorkerStepRaises(s) == WorkerStep(s, TRUE)

\* after the loop the request to the external workflow raises
WorkerRequestRaises(s) ==
  /\ wpc[s] = "run"
  /\ step[s] = total_steps
  /\ wpc' = [wpc EXCEPT ![s] = "err_find"]
  /\ UNCHANGED <<table, nextId, celery, vpc, vexisting, vresp, step, retries,
                 wexisting, clientOps, deleted, attempts, restVars, obsVars, lastEdit, lastWrite>>

\* after the loop: the result is built, handle_task_success, return result
WorkerSuccess(s) ==
  /\ wpc[s] = "run"
  /\ step[s] = total_steps
  /\ LET result == Result(TaskIdOf(s), MetaOf(s)) IN
       /\ table' = HandleTaskSuccess(table, TaskIdOf(s), MetaOf(s), JsonDumps(result))
       /\ lastWrite' = Written(lastWrite, table', TaskIdOf(s), 100, StDone, JsonDumps(result))
       /\ returned' = [returned EXCEPT ![s] = <<result>>]
  /\ wpc' = [wpc EXCEPT ![s] = "succeeded"]
  /\ UNCHANGED <<nextId, celery, vpc, vexisting, vresp, step, retries,
                 wexisting, clientOps, deleted, attempts, restVars, reported, req, resp,
                 lastEdit>>

\* except branch, handle_task_error: existing_form = get_form_by_task_id(task_id)
WorkerErrorFind(s) ==
  /\ wpc[s] = "err_find"
  /\ wexisting' = [wexisting EXCEPT ![s] = GetFormByTaskId(table, TaskIdOf(s))]
  /\ wpc' = [wpc EXCEPT ![s] = "err_write"]
  /\ UNCHANGED <<table, nextId, celery, vpc, vexisting, vresp, step, retries,
                 clientOps, deleted, attempts, restVars, obsVars, lastEdit, lastWrite>>

\* variant: the retry check is off by one
MayRetry_Inclusive(r) == r <= max_retries

\* self.request.retries < self.max_retries
MayRetry(r) == r < max_retries

\* variant: the except branch reports "0%" whatever the step
ErrorProgress_Zero(st) == 0

\* current_step = locals().get('step', 0); total_steps is always bound there
ErrorProgress(st) == Pct(st)

\* variant: the except branch marks the row and drops the task without
\* self.retry(...)
WorkerErrorWrite_NoRetry(s) ==
  /\ wpc[s] = "err_write"
  /\ table' = HandleTaskErrorWrite(table, nextId, TaskIdOf(s), MetaOf(s),
                                   ErrorProgress(step[s]), wexisting[s])
  /\ nextId' = IdAfter(table, table', nextId)
  /\ lastWrite' = Written(lastWrite, table', TaskIdOf(s), ErrorProgress(step[s]), StFailed, "")
  /\ lastEdit' = Edited(lastEdit, table, table', TaskIdOf(s))
  /\ wpc' = [wpc EXCEPT ![s] = IF MayRetry(retries[s]) THEN "none" ELSE "failed"]
  /\ UNCHANGED <<celery, vpc, vexisting, vresp, step, retries,
                 wexisting, clientOps, deleted, attempts, restVars, obsVars>>

\* except branch: the write of handle_task_error with the progress of the
\* current step, then self.retry(...) or the final `raise exc`
WorkerErrorWrite(s) ==
  /\ wpc[s] = "err_write"
  /\ table' = HandleTaskErrorWrite(table, nextId, TaskIdOf(s), MetaOf(s),
                                   ErrorProgress(step[s]), wexisting[s])
  /\ nextId' = IdAfter(table, table', nextId)
  /\ lastWrite' = Written(lastWrite, table', TaskIdOf(s), ErrorProgress(step[s]), StFailed, "")
  /\ lastEdit' = Edited(lastEdit, table, table', TaskIdOf(s))
  /\ IF MayRetry(retries[s])
       THEN /\ wpc' = [wpc EXCEPT ![s] = "queued"]
            /\ retries' = [retries EXCEPT ![s] = @ + 1]
       ELSE /\ wpc' = [wpc EXCEPT ![s] = "failed"]
            /\ retries' = retries
  /\ UNCHANGED <<celery, vpc, vexisting, vresp, step,
                 wexisting, clientOps, deleted, attempts, restVars, obsVars>>

\* ----------------------------------------------------------------- client
\* an attempt of the worker task is executing
InRun(s) == wpc[s] \in {"run", "err_find", "err_write"}

\* update_form_content -> FormDataService.update_content
ClientUpdate(t, c) ==
  /\ clientOps < MaxClientOps
  /\ clientOps' = clientOps + 1
  /\ table' = UpdateFormContent(table, t, c)
  /\ lastEdit' = IF RowsOf(table, t) # {} THEN [lastEdit EXCEPT ![t] = c] ELSE lastEdit
  /\ UNCHANGED <<nextId, celery, vpc, vexisting, vresp, wpc, step, retries,
                 wexisting, deleted, attempts, restVars, obsVars, lastWrite>>

\* delete_form -> FormDataService.delete_form
ClientDelete(t) ==
  /\ clientOps < MaxClientOps
  /\ clientOps' = clientOps + 1
  /\ table' = DeleteFormByTaskId(table, t)
  /\ lastEdit' = [lastEdit EXCEPT ![t] = None]
  /\ lastWrite' = [lastWrite EXCEPT ![t] = NoWrite]
  /\ deleted' = [s \in Subs |->
                   deleted[s] \/ (TaskIdOf(s) = t /\ InRun(s) /\ RowsOf(table, t) # {})]
  /\ UNCHANGED <<nextId, celery, vpc, vexisting, vresp, wpc, step, retries,
                 wexisting, attempts, restVars, obsVars>>

\* ------------------------------------------------------------------- Spec
Next ==
  \/ \E s \in Subs : Submit(s)
  \/ \E s \in Subs : ViewStartFind(s)
  \/ \E s \in Subs : ViewStartWrite(s)
  \/ \E s \in Subs : ViewEnqueue(s)
  \/ \E s \in Subs : ViewFallback(s)
  \/ \E s \in Subs : WorkerBegin(s)
  \/ \E s \in Subs : WorkerStepOk(s)
  \/ \E s \in Subs : WorkerStepRaises(s)
  \/ \E s \in Subs : WorkerRequestRaises(s)
  \/ \E s \in Subs : WorkerSuccess(s)
  \/ \E s \in Subs : WorkerErrorFind(s)
  \/ \E s \in Subs : WorkerErrorWrite(s)
  \/ \E t \in TaskIds, c \in Contents : ClientUpdate(t, c)
  \/ \E t \in TaskIds : ClientDelete(t)

Spec == Init /\ [][Next]_vars

\* --------------------------------------------- failing store operations
\* A store operation raises (connection lost, statement refused): the cursor
\* context manager rolls back, so the table is as before, and the exception
\* goes up through the service method to its caller.

\* variant: the exception of handle_task_start reaches the outer handler of
\* the view, which answers 500
ViewStartRaises_Propagates(s) ==
  /\ vpc[s] \in {"start_find", "start_write"}
  /\ vpc' = [vpc EXCEPT ![s] = "done"]
  /\ vresp' = [vresp EXCEPT ![s] = 500]
  /\ startFailed' = [startFailed EXCEPT ![s] = TRUE]
  /\ UNCHANGED <<table, nextId, celery, vexisting, wpc, step, retries,
                 wexisting, clientOps, deleted, attempts, calls, ncalls, lastOp,
                 lastEdit, lastWrite, obsVars>>

\* handle_task_start raises in the view, at the read or at the write: the
\* exception is logged and the request goes on to the enqueue
ViewStartRaises(s) ==
  /\ vpc[s] \in {"start_find", "start_write"}
  /\ vpc' = [vpc EXCEPT ![s] = "enqueue"]
  /\ startFailed' = [startFailed EXCEPT ![s] = TRUE]
  /\ UNCHANGED <<table, nextId, celery, vexisting, vresp, wpc, step, retries,
                 wexisting, clientOps, deleted, attempts, calls, ncalls, lastOp,
                 lastEdit, lastWrite, obsVars>>

\* handle_task_success raises in the ImportError fallback: logged, then 202
ViewFallbackRaises(s) ==
  /\ vpc[s] = "enqueue"
  /\ ~celery
  /\ vresp' = [vresp EXCEPT ![s] = 202]
  /\ vpc' = [vpc EXCEPT ![s] = "done"]
  /\ UNCHANGED <<table, nextId, celery, vexisting, wpc, step, retries,
                 wexisting, clientOps, deleted, attempts, restVars, obsVars, lastEdit, lastWrite>>

\* handle_task_progress raises inside the loop: `step` is already bound
WorkerProgressRaises(s) ==
  /\ wpc[s] = "run"
  /\ step[s] < total_steps
  /\ step' = [step EXCEPT ![s] = @ + 1]
  /\ wpc' = [wpc EXCEPT ![s] = "err_find"]
  /\ UNCHANGED <<table, nextId, celery, vpc, vexisting, vresp, retries,
                 wexisting, clientOps, deleted, attempts, restVars, obsVars, lastEdit, lastWrite>>

\* handle_task_success raises after the loop
WorkerSuccessRaises(s) ==
  /\ wpc[s] = "run"
  /\ step[s] = total_steps
  /\ wpc' = [wpc EXCEPT ![s] = "err_find"]
  /\ UNCHANGED <<table, nextId, celery, vpc, vexisting, vresp, step, retries,
                 wexisting, clientOps, deleted, attempts, restVars, obsVars, lastEdit, lastWrite>>

\* handle_task_error raises inside the except branch, at the read or at the
\* write: the exception leaves the task before the retry check
WorkerErrorRaises(s) ==
  /\ wpc[s] \in {"err_find", "err_write"}
  /\ wpc' = [wpc EXCEPT ![s] = "crashed"]
  /\ UNCHANGED <<table, nextId, celery, vpc, vexisting, vresp, step, retries,
                 wexisting, clientOps, deleted, attempts, restVars, obsVars, lastEdit, lastWrite>>

NextFault ==
  \/ Next
  \/ \E s \in Subs : ViewStartRaises(s)
  \/ \E s \in Subs : ViewFallbackRaises(s)
  \/ \E s \in Subs : WorkerProgressRaises(s)
  \/ \E s \in Subs : WorkerSuccessRaises(s)
  \/ \E s \in Subs : WorkerErrorRaises(s)

SpecFault == Init /\ [][NextFault]_vars

\* --------------------------------------------------- failing enqueue
\* process_interpretation_task.delay(...) raises something other than
\* ImportError (the broker cannot be reached): nothing is published, and the
\* exception reaches the outer handler of the view.

\* the names bound at module level in api/views.py
ViewsModuleNames ==
  {"uuid", "os", "json", "logging", "datetime", "settings", "JsonResponse",
   "csrf_exempt", "require_http_methods", "default_storage", "ContentFile",
   "api_view", "Response", "FormDataService", "logger"}

\* the outer handler builds its Response with status.HTTP_500_INTERNAL_SERVER_ERROR:
\* evaluating `status` raises NameError when the module binds no such name
OuterExceptRaises == "status" \notin ViewsModuleNames

\* the keys of the body answered with each status code; an exception that
\* leaves the view is answered by the framework with a 500 of its own
StartResponseKeys(code) ==
  CASE code = 202 -> {"success", "task_id", "message"}
    [] code = 400 -> {"success", "error"}
    [] code = 500 -> IF OuterExceptRaises THEN {} ELSE {"success", "error"}
    [] OTHER -> {}

\* variant: the exception of the enqueue is logged and the request goes on to
\* its 202
ViewEnqueueRaises_Swallowed(s) ==
  /\ vpc[s] = "enqueue"
  /\ celery
  /\ vresp' = [vresp EXCEPT ![s] = 202]
  /\ vpc' = [vpc EXCEPT ![s] = "done"]
  /\ UNCHANGED <<table, nextId, celery, vexisting, wpc, step, retries,
                 wexisting, clientOps, deleted, attempts, restVars, obsVars,
                 lastEdit, lastWrite>>

\* the import succeeds and delay(...) raises: no message is sent, the request
\* ends with a 500
ViewEnqueueRaises(s) ==
  /\ vpc[s] = "enqueue"
  /\ celery
  /\ vresp' = [vresp EXCEPT ![s] = 500]
  /\ vpc' = [vpc EXCEPT ![s] = "done"]
  /\ UNCHANGED <<table, nextId, celery, vexisting, wpc, step, retries,
                 wexisting, clientOps, deleted, attempts, restVars, obsVars,
                 lastEdit, lastWrite>>

NextBroker ==
  \/ Next
  \/ \E s \in Subs : ViewEnqueueRaises(s)

SpecBroker == Init /\ [][NextBroker]_vars

\* -------------------------------------------------------- service calls
\* handle_task_start and handle_task_error as one call: the read, then the write
HandleTaskStart(tbl, id, t, meta) ==
  HandleTaskStartWrite(tbl, id, t, meta, GetFormByTaskId(tbl, t))

HandleTaskError(tbl, id, t, meta, progress) ==
  HandleTaskErrorWrite(tbl, id, t, meta, progress, GetFormByTaskId(tbl, t))

\* progress values passed by the callers of the harness
HarnessPcts == {Pct(0), Pct(5), Pct(total_steps)}

\* rows the lifecycle writes produce, by status
RowStates(t) ==
  {<<Pct(0), StInProgress, "">>, <<Pct(5), StInProgress, "">>,
   <<100, StDone, WorkerResult(t)>>, <<Pct(5), StFailed, "">>,
   <<Pct(total_steps), StFailed, "">>}

RowOf(id, t, st, uc) ==
  [id |-> id, task_id |-> t, meta |-> MetaOf(t), progress |-> st[1],
   status |-> st[2], llm_content |-> st[3], update_content |-> uc,
   create_time |-> id]

\* stores with at most one row per task id, in either insertion order
SeqTables ==
  {<<>>}
    \cup {<<RowOf(1, t, st, uc)>> : t \in TaskIds, st \in UNION {RowStates(u) : u \in TaskIds},
                                    uc \in {None, "x"}}
    \cup {<<RowOf(1, t, st, uc), RowOf(2, u, su, None)>> :
            t \in TaskIds, u \in TaskIds, st \in UNION {RowStates(v) : v \in TaskIds},
            su \in UNION {RowStates(v) : v \in TaskIds}, uc \in {None, "x"}}

WellFormed(tbl) ==
  /\ \A t \in TaskIds : Cardinality(RowsOf(tbl, t)) <= 1
  /\ \A i \in DOMAIN tbl :
       <<tbl[i].progress, tbl[i].status, tbl[i].llm_content>> \in RowStates(tbl[i].task_id)

\* ---------------------------------------------- sequential service calls
\* The service methods called one after the other, each to its end, on a store
\* in any state the lifecycle writes can leave it in.
InitSeq ==
  /\ table \in {tbl \in SeqTables : WellFormed(tbl)}
  /\ nextId = Len(table) + 1
  /\ celery = TRUE
  /\ vpc = [s \in Subs |-> "idle"]
  /\ vexisting = [s \in Subs |-> FALSE]
  /\ vresp = [s \in Subs |-> 0]
  /\ wpc = [s \in Subs |-> "none"]
  /\ step = [s \in Subs |-> 0]
  /\ retries = [s \in Subs |-> 0]
  /\ wexisting = [s \in Subs |-> FALSE]
  /\ clientOps = 0
  /\ deleted = [s \in Subs |-> FALSE]
  /\ attempts = [s \in Subs |-> 0]
  /\ calls = [c \in Callers |-> Idle]
  /\ ncalls = 0
  /\ lastOp = NoOp
  /\ startFailed = [s \in Subs |-> FALSE]
  /\ lastEdit = [t \in TaskIds |-> None]
  /\ lastWrite = [t \in TaskIds |-> NoWrite]
  /\ reported = [s \in Subs |-> <<>>]
  /\ returned = [s \in Subs |-> NoResult]
  /\ req = NoReq
  /\ resp = NoResp

\* what a call of the harness leaves alone
systemVars == <<celery, vpc, vexisting, vresp, wpc, step, retries, wexisting,
                clientOps, deleted, attempts, startFailed, lastEdit, lastWrite, obsVars>>

SeqCall(op, t, p, tbl) ==
  /\ ncalls < MaxSeqCalls
  /\ ncalls' = ncalls + 1
  /\ table' = tbl
  /\ nextId' = IdAfter(table, tbl, nextId)
  /\ lastOp' = Called(lastOp, table, op, t, p)
  /\ UNCHANGED <<calls, systemVars>>

SeqStart(t) == SeqCall("start", t, 0, HandleTaskStart(table, nextId, t, MetaOf(t)))

SeqProgress(t, p) == SeqCall("progress", t, p, HandleTaskProgress(table, t, MetaOf(t), p))

SeqSuccess(t) ==
  SeqCall("success", t, 100, HandleTaskSuccess(table, t, MetaOf(t), WorkerResult(t)))

SeqError(t, p) == SeqCall("error", t, p, HandleTaskError(table, nextId, t, MetaOf(t), p))

SeqUpdateContent(t, c) == SeqCall("update_content", t, 0, UpdateFormContent(table, t, c))

SeqDelete(t) == SeqCall("delete", t, 0, DeleteFormByTaskId(table, t))

NextSeq ==
  \/ \E t \in TaskIds : SeqStart(t)
  \/ \E t \in TaskIds, p \in HarnessPcts : SeqProgress(t, p)
  \/ \E t \in TaskIds : SeqSuccess(t)
  \/ \E t \in TaskIds, p \in HarnessPcts : SeqError(t, p)
  \/ \E t \in TaskIds, c \in Contents : SeqUpdateContent(t, c)
  \/ \E t \in TaskIds : SeqDelete(t)

SpecSeq == InitSeq /\ [][NextSeq]_vars

\* ---------------------------------------------- concurrent service calls
\* The lifecycle methods called by concurrent callers on an empty store.
\* handle_task_start and handle_task_error make two store operations, the read
\* and the write, and other callers' operations come between them.
RaceBegin(c, op, t, p) ==
  /\ ncalls < MaxCalls
  /\ calls[c].pc = "idle"
  /\ ncalls' = ncalls + 1
  /\ calls' = [calls EXCEPT ![c] = [pc |-> "find", op |-> op, tid |-> t,
                                    progress |-> p, existing |-> FALSE]]
  /\ UNCHANGED <<table, nextId, lastOp, systemVars>>

RaceStart(c, t) == RaceBegin(c, "start", t, 0)

RaceError(c, t, p) == RaceBegin(c, "error", t, p)

\* existing_form = get_form_by_task_id(task_id)
RaceFind(c) ==
  /\ calls[c].pc = "find"
  /\ calls' = [calls EXCEPT ![c].pc = "write",
                            ![c].existing = GetFormByTaskId(table, calls[c].tid)]
  /\ UNCHANGED <<table, nextId, ncalls, lastOp, systemVars>>

\* update_task_status or create_form, as existing_form says
RaceWrite(c) ==
  /\ calls[c].pc = "write"
  /\ LET k == calls[c] IN
       /\ table' = IF k.op = "start"
                     THEN HandleTaskStartWrite(table, nextId, k.tid, MetaOf(k.tid),
                                               k.existing)
                     ELSE HandleTaskErrorWrite(table, nextId, k.tid, MetaOf(k.tid),
                                               k.progress, k.existing)
       /\ lastOp' = Called(lastOp, table, k.op, k.tid, k.progress)
  /\ nextId' = IdAfter(table, table', nextId)
  /\ calls' = [calls EXCEPT ![c] = Idle]
  /\ UNCHANGED <<ncalls, systemVars>>

\* handle_task_progress and handle_task_success are one store operation
RaceAtomic(op, t, p, tbl) ==
  /\ ncalls < MaxCalls
  /\ ncalls' = ncalls + 1
  /\ table' = tbl
  /\ lastOp' = Called(lastOp, table, op, t, p)
  /\ UNCHANGED <<nextId, calls, systemVars>>

RaceProgress(t, p) == RaceAtomic("progress", t, p, HandleTaskProgress(table, t, MetaOf(t), p))

RaceSuccess(t) ==
  RaceAtomic("success", t, 100, HandleTaskSuccess(table, t, MetaOf(t), WorkerResult(t)))

NextRace ==
  \/ \E c \in Callers, t \in TaskIds : RaceStart(c, t)
  \/ \E c \in Callers, t \in TaskIds, p \in HarnessPcts : RaceError(c, t, p)
  \/ \E c \in Callers : RaceFind(c)
  \/ \E c \in Callers : RaceWrite(c)
  \/ \E t \in TaskIds, p \in HarnessPcts : RaceProgress(t, p)
  \/ \E t \in TaskIds : RaceSuccess(t)

InitRace == InitCommon /\ celery = TRUE

SpecRace == InitRace /\ [][NextRace]_vars

\* ------------------------------------------------------- client requests
\* The client-facing operations served one after the other, each to its end,
\* on a store in any state the lifecycle writes can leave it in.

\* a task_id that is missing from the request body, or empty
EmptyId == 0
ReqTaskIds == {EmptyId} \cup TaskIds

\* FormDataService.update_content: the rows affected, and the store afterwards
SvcUpdateContent(tbl, t, c) ==
  IF t = EmptyId
    THEN [affected |-> 0, table |-> tbl]
    ELSE LET new == UpdateFormContent(tbl, t, c) IN
           [affected |-> AffectedByUpdate(tbl, new, t), table |-> new]

\* FormDataService.delete_form
SvcDeleteForm(tbl, t) ==
  IF t = EmptyId
    THEN [affected |-> 0, table |-> tbl]
    ELSE LET new == DeleteFormByTaskId(tbl, t) IN
           [affected |-> AffectedByDelete(tbl, new), table |-> new]

\* FormDataService.get_form_by_task_id: result[0] if result else None
SvcGetFormByTaskId(tbl, t) ==
  IF t = EmptyId \/ SelectFormByTaskId(tbl, t) = <<>>
    THEN <<>>
    ELSE <<SelectFormByTaskId(tbl, t)[1]>>

\* the view update_form_content, given the task_id and content of the body
ViewUpdateFormContent(tbl, t, c) ==
  IF t = EmptyId \/ c = None
    THEN [code |-> 400, table |-> tbl]
    ELSE LET u == SvcUpdateContent(tbl, t, c) IN
           [code |-> IF u.affected = 0 THEN 404 ELSE 200, table |-> u.table]

\* the view delete_form
ViewDeleteForm(tbl, t) ==
  LET d == SvcDeleteForm(tbl, t) IN
    [code |-> IF d.affected = 0 THEN 404 ELSE 200, table |-> d.table]

\* a request on task id t with content c, whether t had a row when it came,
\* and the request served before it
Request(op, t, c, tbl, last) ==
  [op |-> op, tid |-> t, content |-> c, existed |-> RowsOf(tbl, t) # {},
   prev |-> last.op, ptid |-> last.tid, pcontent |-> last.content,
   pexisted |-> last.existed]

\* what a client request leaves alone
requestRest == <<nextId, celery, vpc, vexisting, vresp, wpc, step, retries,
                 wexisting, clientOps, deleted, attempts, calls, lastOp, startFailed,
                 lastEdit, lastWrite, reported, returned>>

ReqServe(r, a, tbl) ==
  /\ ncalls < MaxSeqCalls
  /\ ncalls' = ncalls + 1
  /\ req' = r
  /\ resp' = a
  /\ table' = tbl
  /\ UNCHANGED requestRest

ReqUpdate(t, c) ==
  LET v == ViewUpdateFormContent(table, t, c) IN
    ReqServe(Request("update", t, c, table, req), [op |-> "update", code |-> v.code],
             v.table)

ReqGet(t) ==
  ReqServe(Request("get", t, None, table, req),
           [op |-> "get", row |-> SvcGetFormByTaskId(table, t)], table)

ReqDelete(t) ==
  LET v == ViewDeleteForm(table, t) IN
    ReqServe(Request("delete", t, None, table, req), [op |-> "delete", code |-> v.code],
             v.table)

NextContent ==
  \/ \E t \in ReqTaskIds, c \in Contents \cup {None} : ReqUpdate(t, c)
  \/ \E t \in ReqTaskIds : ReqGet(t)
  \/ \E t \in TaskIds : ReqDelete(t)

SpecContent == InitSeq /\ [][NextContent]_vars

\* ------------------------------------------------------------ submission
\* the answer of start_interpretation to a submission when nothing after the
\* validation raises: the 400 of the validation, or the 202 the view ends with
ViewStartInterpretation(r) == IF Validate(r) = 400 THEN 400 ELSE 202

ReqStart(r) ==
  ReqServe([op |-> "start", form |-> r],
           [op |-> "start", code |-> ViewStartInterpretation(r)], table)

NextSubmit == \E r \in Requests : ReqStart(r)

SpecSubmit == InitRace /\ [][NextSubmit]_vars

\* ----------------------------------------------------------- batch delete
\* task ids a batch may name: those of the store and one that never has a row
BatchIds == ReqTaskIds \cup {NumSubs + 2}
\* the task_ids lists of the body
BatchLists == UNION {[1..n -> BatchIds] : n \in 0..MaxBatch}

Range(f) == {f[i] : i \in DOMAIN f}

\* variant: the method reports the number of ids it was asked to delete
SvcDeleteFormsBatch_CountIds(tbl, ids) ==
  LET valid == SelectSeq(ids, LAMBDA t : t # EmptyId) IN
    IF ids = <<>> \/ valid = <<>>
      THEN [affected |-> 0, table |-> tbl]
      ELSE [affected |-> Len(valid), table |-> DeleteFormBatch(tbl, Range(valid))]

\* FormDataService.delete_forms_batch: empty ids are dropped from the list, the
\* rest go to one DELETE ... IN
SvcDeleteFormsBatch(tbl, ids) ==
  LET valid == SelectSeq(ids, LAMBDA t : t # EmptyId) IN
    IF ids = <<>> \/ valid = <<>>
      THEN [affected |-> 0, table |-> tbl]
      ELSE LET new == DeleteFormBatch(tbl, Range(valid)) IN
             [affected |-> AffectedByDelete(tbl, new), table |-> new]

\* the view delete_forms_batch: 400 without a list, else 200 with the count
ViewDeleteFormsBatch(tbl, ids) ==
  IF ids = <<>>
    THEN [code |-> 400, deleted |-> 0, table |-> tbl]
    ELSE LET d == SvcDeleteFormsBatch(tbl, ids) IN
           [code |-> 200, deleted |-> d.affected, table |-> d.table]

\* a batch request: its list, and the ids of the list that had a row
ReqDeleteBatch(ids) ==
  LET v == ViewDeleteFormsBatch(table, ids) IN
    ReqServe([op |-> "delete_batch", ids |-> ids,
              had |-> {t \in Range(ids) : RowsOf(table, t) # {}}],
             [op |-> "delete_batch", code |-> v.code, deleted |-> v.deleted], v.table)

NextBatch == \E ids \in BatchLists : ReqDeleteBatch(ids)

SpecBatch == InitSeq /\ [][NextBatch]_vars

\* ---------------------------------------------------------------- listing
\* task names are sequences of characters
QRowNames == {<<"a", "b">>, <<"b">>}
\* the task_name parameter; NoName is None
NoName == <<>>
QNames == {NoName, <<"a">>, <<"b">>, <<"b", "a">>, <<"_">>}
QCompanies == {"co", "c2"}
\* create_time has a resolution of one second: rows may share it
QTimes == {1, 2}

QRow(id, name, company, ct) ==
  [id |-> id, task_id |-> id, meta |-> [task_name |-> name, company |-> company,
                                        scene |-> "sc"],
   progress |-> 0, status |-> StInProgress, llm_content |-> "",
   update_content |-> None, create_time |-> ct]

\* stores of up to MaxRows rows, one per task id
QueryTables ==
  UNION {{[i \in 1..n |-> QRow(i, f[i][1], f[i][2], f[i][3])] :
            f \in [1..n -> QRowNames \X QCompanies \X QTimes]} : n \in 0..MaxRows}

\* SQL `s LIKE p`: % matches any run of characters, _ any one character
RECURSIVE Like(_, _)
Like(str, pat) ==
  IF pat = <<>> THEN str = <<>>
  ELSE IF Head(pat) = "%"
    THEN Like(str, Tail(pat)) \/ (str # <<>> /\ Like(Tail(str), pat))
  ELSE /\ str # <<>>
       /\ Head(pat) = "_" \/ Head(pat) = Head(str)
       /\ Like(Tail(str), Tail(pat))

\* f'%{task_name}%' if task_name else None
TaskNamePattern(name) == <<"%">> \o name \o <<"%">>

\* WHERE (task_name IS NULL OR task_name LIKE pattern)
\*   AND (company IS NULL OR company = company)
FormDataWhere(r, name, company) ==
  /\ name = NoName \/ Like(r.meta.task_name, TaskNamePattern(name))
  /\ company = None \/ r.meta.company = company

\* ORDER BY create_time DESC: any order of the rows in which no row comes
\* before a row created later
OrderByCreateTimeDesc(rows) ==
  LET n == Len(rows)
      perms == {f \in [1..n -> 1..n] : \A i, j \in 1..n : i # j => f[i] # f[j]}
  IN {[i \in 1..n |-> rows[f[i]]] :
        f \in {g \in perms : \A i, j \in 1..n :
                               i < j => rows[g[i]].create_time >= rows[g[j]].create_time}}

\* LIMIT limit OFFSET offset
LimitOffset(rows, limit, offset) ==
  SubSeq(rows, offset + 1, IF offset + limit < Len(rows) THEN offset + limit ELSE Len(rows))

\* create_time.strftime('%Y-%m-%d %H:%M:%S')
FormatTime(ct) == [format |-> "%Y-%m-%d %H:%M:%S", time |-> ct]

\* FormDataService.query_forms, given the order in which the store returns
\* the rows of equal create_time
SvcQueryForms(tbl, ordered, name, company, page, page_size) ==
  LET offset == (page - 1) * page_size
      total == Len(SelectSeq(tbl, LAMBDA r : FormDataWhere(r, name, company)))
      forms == LimitOffset(ordered, page_size, offset)
  IN [total |-> total, page |-> page, page_size |-> page_size,
      total_pages |-> (total + page_size - 1) \div page_size,
      data |-> [i \in DOMAIN forms |->
                  [forms[i] EXCEPT !.create_time = FormatTime(@)]]]

ReqQueryForms(name, company, page, page_size) ==
  /\ ncalls < MaxQueryCalls
  /\ \E ordered \in OrderByCreateTimeDesc(
                       SelectSeq(table, LAMBDA r : FormDataWhere(r, name, company))) :
       ReqServe([op |-> "query", task_name |-> name, company |-> company,
                 page |-> page, page_size |-> page_size],
                [op |-> "query",
                 result |-> SvcQueryForms(table, ordered, name, company, page, page_size)],
                table)

\* the methods DatabaseConnection defines
DatabaseConnectionMethods ==
  {"connect", "disconnect", "cursor", "execute_query", "execute_update",
   "execute_insert", "execute_batch"}

\* the WHERE clause get_all_tasks builds from the filters that are given
AllTasksWhere(r, status, company, scene, create_time) ==
  /\ status = None \/ r.status = status
  /\ company = None \/ r.meta.company = company
  /\ scene = None \/ r.meta.scene = scene
  /\ create_time = 0 \/ r.create_time <= create_time

\* FormDataService.get_all_tasks: the page query runs, then the count query is
\* sent through db.execute_query_one; a method the connection does not
\* define raises AttributeError, which the method logs and re-raises
SvcGetAllTasks(tbl, ordered, status, company, scene, create_time, page, page_size) ==
  IF "execute_query_one" \notin DatabaseConnectionMethods
    THEN [raised |-> TRUE]
    ELSE LET offset == (page - 1) * page_size
             total == Len(SelectSeq(tbl, LAMBDA r : AllTasksWhere(r, status, company,
                                                                 scene, create_time)))
             total_pages == (total + page_size - 1) \div page_size
         IN [raised |-> FALSE,
             data |-> LimitOffset(ordered, page_size, offset),
             pagination |-> [page |-> page, page_size |-> page_size, total |-> total,
                             total_pages |-> total_pages,
                             has_next |-> page < total_pages, has_prev |-> page > 1]]

\* create_time = 0 stands for no date filter
ReqGetAllTasks(status, company, scene, create_time, page, page_size) ==
  /\ ncalls < MaxQueryCalls
  /\ \E ordered \in OrderByCreateTimeDesc(
                       SelectSeq(table, LAMBDA r : AllTasksWhere(r, status, company, scene,
                                                                 create_time))) :
       ReqServe([op |-> "list", status |-> status, company |-> company, scene |-> scene,
                 create_time |-> create_time, page |-> page, page_size |-> page_size],
                [op |-> "list",
                 result |-> SvcGetAllTasks(table, ordered, status, company, scene,
                                           create_time, page, page_size)],
                table)

NextQuery ==
  \/ \E name \in QNames, company \in {None, "co"}, page \in 1..MaxPage,
         page_size \in 1..MaxPage :
       ReqQueryForms(name, company, page, page_size)
  \/ \E status \in {None, StInProgress}, company \in {None, "co"},
         scene \in {None, "sc"}, create_time \in {0} \cup QTimes, page \in 1..MaxPage,
         page_size \in 1..MaxPage :
       ReqGetAllTasks(status, company, scene, create_time, page, page_size)

InitQuery ==
  /\ table \in QueryTables
  /\ nextId = Len(table) + 1
  /\ celery = TRUE
  /\ vpc = [s \in Subs |-> "idle"]
  /\ vexisting = [s \in Subs |-> FALSE]
  /\ vresp = [s \in Subs |-> 0]
  /\ wpc = [s \in Subs |-> "none"]
  /\ step = [s \in Subs |-> 0]
  /\ retries = [s \in Subs |-> 0]
  /\ wexisting = [s \in Subs |-> FALSE]
  /\ clientOps = 0
  /\ deleted = [s \in Subs |-> FALSE]
  /\ attempts = [s \in Subs |-> 0]
  /\ calls = [c \in Callers |-> Idle]
  /\ ncalls = 0
  /\ lastOp = NoOp
  /\ startFailed = [s \in Subs |-> FALSE]
  /\ lastEdit = [t \in TaskIds |-> None]
  /\ lastWrite = [t \in TaskIds |-> NoWrite]
  /\ reported = [s \in Subs |-> <<>>]
  /\ returned = [s \in Subs |-> NoResult]
  /\ req = NoReq
  /\ resp = NoResp

SpecQuery == InitQuery /\ [][NextQuery]_vars

\* ---------------------------------------------------------------- routing
\* A path is the sequence of its segments.  <str:task_id> matches any one
\* non-empty segment; path() anchors the route at both ends.
StrTaskId == "<str:task_id>"

urlpatterns ==
  << [route |-> <<"interpretation", "start">>, view |-> "start_interpretation"],
     [route |-> <<"interpretation", "status">>, view |-> "query_task_status"],
     [route |-> <<"forms", StrTaskId>>, view |-> "get_form_details"],
     [route |-> <<"forms", StrTaskId, "update">>, view |-> "update_form_content"],
     [route |-> <<"forms", StrTaskId, "delete">>, view |-> "delete_form"],
     [route |-> <<"forms", "delete-batch">>, view |-> "delete_forms_batch"],
     [route |-> <<"health">>, view |-> "health_check"] >>

\* the methods of each view's @api_view decorator (health_check: the default)
ViewMethods(view) ==
  CASE view = "start_interpretation" -> {"POST"}
    [] view = "query_task_status" -> {"GET"}
    [] view = "get_form_details" -> {"GET"}
    [] view = "update_form_content" -> {"POST"}
    [] view = "delete_form" -> {"DELETE"}
    [] view = "delete_forms_batch" -> {"DELETE"}
    [] view = "health_check" -> {"GET"}

\* the parameters each view function takes besides request
ViewParams(view) ==
  CASE view = "get_form_details" -> {"task_id"}
    [] view = "delete_form" -> {"task_id"}
    [] OTHER -> {}

RouteMatches(route, path) ==
  /\ Len(route) = Len(path)
  /\ \A i \in DOMAIN route : route[i] = StrTaskId \/ route[i] = path[i]

\* the keyword arguments the route captures
RouteKwargs(route) == IF \E i \in DOMAIN route : route[i] = StrTaskId THEN {"task_id"} ELSE {}

\* URLResolver.resolve: the first pattern of urlpatterns that matches, 0 if none
Resolve(path) ==
  LET ms == {i \in DOMAIN urlpatterns : RouteMatches(urlpatterns[i].route, path)} IN
    IF ms = {} THEN 0 ELSE CHOOSE i \in ms : \A j \in ms : i <= j

\* the segment that names task id t, and the task id a segment names (EmptyId
\* when it names none)
IdSegment(t) == <<"T1", "T2", "T3", "T4">>[t]
SegmentId(seg) ==
  IF \E t \in TaskIds : IdSegment(t) = seg
    THEN CHOOSE t \in TaskIds : IdSegment(t) = seg
    ELSE NumSubs + 2

\* the view get_form_details
ViewGetFormDetails(tbl, t) ==
  [code |-> IF SvcGetFormByTaskId(tbl, t) = <<>> THEN 404 ELSE 200, table |-> tbl]

\* the view that was resolved runs on the request: its answer and the store
\* afterwards; task_id is the segment the route captured
RunView(view, tbl, task_id, body) ==
  CASE view = "get_form_details" -> ViewGetFormDetails(tbl, task_id)
    [] view = "update_form_content" -> ViewUpdateFormContent(tbl, body.task_id, body.content)
    [] view = "delete_form" -> ViewDeleteForm(tbl, task_id)
    [] view = "delete_forms_batch" ->
         LET v == ViewDeleteFormsBatch(tbl, body.task_ids) IN
           [code |-> v.code, table |-> v.table]
    [] OTHER -> [code |-> 200, table |-> tbl]

\* a request goes through the resolver, the method check of api_view and the
\* call of the view function with the captured keyword arguments: no pattern
\* is 404, a method the view does not allow is 405, a keyword argument the
\* function does not take is a TypeError, answered 500
Dispatch(tbl, method, path, body) ==
  LET k == Resolve(path) IN
    IF k = 0 THEN [view |-> "none", code |-> 404, table |-> tbl]
    ELSE LET view == urlpatterns[k].view
             kwargs == RouteKwargs(urlpatterns[k].route)
         IN IF method \notin ViewMethods(view)
              THEN [view |-> view, code |-> 405, table |-> tbl]
            ELSE IF kwargs # ViewParams(view)
              THEN [view |-> view, code |-> 500, table |-> tbl]
            ELSE LET v == RunView(view, tbl,
                                  IF kwargs = {} THEN EmptyId ELSE SegmentId(path[2]), body)
                 IN [view |-> view, code |-> v.code, table |-> v.table]

\* the paths of the documented routes, with each task id in its place
RoutePaths ==
  {<<"interpretation", "start">>, <<"interpretation", "status">>,
   <<"forms", "delete-batch">>, <<"health">>}
    \cup {<<"forms", IdSegment(t)>> : t \in TaskIds}
    \cup {<<"forms", IdSegment(t), "update">> : t \in TaskIds}
    \cup {<<"forms", IdSegment(t), "delete">> : t \in TaskIds}

\* request bodies: the task_id and content of an edit, the task_ids of a batch
RouteBodies == [task_id : TaskIds, content : {"x"}, task_ids : {<<t>> : t \in TaskIds}]

ReqRoute(method, path, body) ==
  LET d == Dispatch(table, method, path, body) IN
    ReqServe([op |-> "route", method |-> method, path |-> path, body |-> body],
             [op |-> "route", view |-> d.view, code |-> d.code], d.table)

NextRoute ==
  \E method \in {"GET", "POST", "DELETE"}, path \in RoutePaths, body \in RouteBodies :
    ReqRoute(method, path, body)

SpecRoute == InitSeq /\ [][NextRoute]_vars

\* ------------------------------------------------------ failing writes
\* One store write operation inside DatabaseConnection.cursor(): the statement
\* runs in the connection's transaction, then the context manager commits, or
\* rolls back and re-raises.  The table is what other connections read.

\* where the operation fails: nowhere, at cursor.execute, at connection.commit
FailPoints == {"none", "execute", "commit"}

\* what the transaction holds after cursor.execute: a statement that raises
\* changes nothing
Executed(tbl, after, fail) == IF fail = "execute" THEN tbl ELSE after

\* variant: the context manager leaves the transaction's changes in place when
\* the operation fails
CursorExit_NoRollback(tbl, pending, fail) == pending

\* the exit of the context manager: commit(), or rollback() in the except branch
CursorExit(tbl, pending, fail) == IF fail = "none" THEN pending ELSE tbl

\* the exception reaches the caller of the FormDataService method: execute_update
\* and execute_insert re-raise it, and so does every service method
Raised(fail) == fail # "none"

\* what a write operation leaves alone
writeRest == <<celery, vpc, vexisting, vresp, wpc, step, retries, wexisting,
               clientOps, deleted, attempts, calls, lastOp, startFailed, lastEdit,
               lastWrite, reported, returned>>

\* the statement of the operation runs; AUTO_INCREMENT advances with an insert
\* that ran, whether or not it is committed later
WriteExecute(op, after, fail) ==
  /\ ncalls < MaxSeqCalls
  /\ resp.op # "pending"
  /\ ncalls' = ncalls + 1
  /\ req' = [op |-> op, fail |-> fail, before |-> table,
             pending |-> Executed(table, after, fail)]
  /\ resp' = [op |-> "pending"]
  /\ nextId' = IdAfter(table, req'.pending, nextId)
  /\ UNCHANGED <<table, writeRest>>

\* the context manager exits and the service method returns or raises
WriteExit ==
  /\ resp.op = "pending"
  /\ table' = CursorExit(table, req.pending, req.fail)
  /\ resp' = [op |-> req.op, raised |-> Raised(req.fail)]
  /\ UNCHANGED <<req, ncalls, nextId, writeRest>>

WriteInsert(t, p, st, fail) ==
  WriteExecute("insert", CreateForm(table, nextId, t, MetaOf(t), p, st, None), fail)

WriteStatus(t, p, st, fail) ==
  WriteExecute("status", UpdateTaskStatus(table, t, MetaOf(t), p, st, None), fail)

WriteContent(t, c, fail) ==
  WriteExecute("content", UpdateFormContent(table, t, c), fail)

WriteDelete(t, fail) ==
  WriteExecute("delete", DeleteFormByTaskId(table, t), fail)

WriteDeleteBatch(ids, fail) ==
  WriteExecute("delete_batch", DeleteFormBatch(table, ids), fail)

NextWrite ==
  \/ \E t \in TaskIds, st \in {StInProgress, StFailed}, fail \in FailPoints :
       WriteInsert(t, Pct(5), st, fail)
  \/ \E t \in TaskIds, st \in {StInProgress, StFailed}, fail \in FailPoints :
       WriteStatus(t, Pct(5), st, fail)
  \/ \E t \in TaskIds, c \in Contents, fail \in FailPoints : WriteContent(t, c, fail)
  \/ \E t \in TaskIds, fail \in FailPoints : WriteDelete(t, fail)
  \/ \E ids \in SUBSET TaskIds, fail \in FailPoints : WriteDeleteBatch(ids, fail)
  \/ WriteExit

SpecWrite == InitSeq /\ [][NextWrite]_vars

\* ------------------------------------------------------ worker processes
\* The worker pool: each caller is a worker process that executes one
\* delivered message at a time.  wpc[s] = "queued" says that a message of task
\* s is in the broker; calls[c] is the execution process c is in, its
\* `progress` field being the loop variable `step`.
Attempt(s, pc, st, existing) ==
  [pc |-> pc, op |-> "attempt", tid |-> s, progress |-> st, existing |-> existing]

Executing(c) == calls[c].pc # "idle"

poolRest == <<celery, vexisting, step, wexisting, clientOps, deleted, ncalls, lastOp,
              startFailed, lastEdit, lastWrite, obsVars>>

\* start_interpretation: handle_task_start, then
\* process_interpretation_task.delay(...), then 202
PoolEnqueue(s) ==
  /\ vpc[s] = "idle"
  /\ table' = HandleTaskStart(table, nextId, TaskIdOf(s), MetaOf(s))
  /\ nextId' = IdAfter(table, table', nextId)
  /\ wpc' = [wpc EXCEPT ![s] = "queued"]
  /\ vpc' = [vpc EXCEPT ![s] = "done"]
  /\ vresp' = [vresp EXCEPT ![s] = 202]
  /\ UNCHANGED <<retries, attempts, calls, poolRest>>

\* the broker delivers the message to an idle process and the attempt begins
PoolBegin(c, s) ==
  /\ ~Executing(c)
  /\ wpc[s] = "queued"
  /\ wpc' = [wpc EXCEPT ![s] = "none"]
  /\ calls' = [calls EXCEPT ![c] = Attempt(s, "run", 0, FALSE)]
  /\ attempts' = [attempts EXCEPT ![s] = @ + 1]
  /\ UNCHANGED <<table, nextId, vpc, vresp, retries, poolRest>>

\* one iteration of the step loop: handle_task_progress, then either the next
\* iteration or the simulated processing error
PoolStep(c, fails) ==
  /\ calls[c].pc = "run"
  /\ calls[c].progress < total_steps
  /\ LET s == calls[c].tid
         st == calls[c].progress + 1 IN
       /\ table' = HandleTaskProgress(table, TaskIdOf(s), MetaOf(s), Pct(st))
       /\ calls' = [calls EXCEPT ![c] =
                      Attempt(s, IF fails THEN "err_find" ELSE "run", st, FALSE)]
  /\ UNCHANGED <<nextId, vpc, vresp, wpc, retries, attempts, poolRest>>

PoolStepOk(c) == PoolStep(c, FALSE)

PoolStepRaises(c) == PoolStep(c, TRUE)

\* after the loop: handle_task_success, return result; the process is free
PoolSuccess(c) ==
  /\ calls[c].pc = "run"
  /\ calls[c].progress = total_steps
  /\ LET s == calls[c].tid IN
       /\ table' = HandleTaskSuccess(table, TaskIdOf(s), MetaOf(s),
                                     JsonDumps(Result(TaskIdOf(s), MetaOf(s))))
       /\ wpc' = [wpc EXCEPT ![s] = "succeeded"]
  /\ calls' = [calls EXCEPT ![c] = Idle]
  /\ UNCHANGED <<nextId, vpc, vresp, retries, attempts, poolRest>>

\* after the loop the request to the external workflow raises
PoolRequestRaises(c) ==
  /\ calls[c].pc = "run"
  /\ calls[c].progress = total_steps
  /\ calls' = [calls EXCEPT ![c] = Attempt(calls[c].tid, "err_find", calls[c].progress, FALSE)]
  /\ UNCHANGED <<table, nextId, vpc, vresp, wpc, retries, attempts, poolRest>>

\* variant: the except branch issues self.retry(...) before it calls
\* handle_task_error
PoolErrorFind_RetryFirst(c) ==
  /\ calls[c].pc = "err_find"
  /\ LET s == calls[c].tid IN
       /\ calls' = [calls EXCEPT ![c] =
                      Attempt(s, "err_write", calls[c].progress,
                              GetFormByTaskId(table, TaskIdOf(s)))]
       /\ IF MayRetry(retries[s])
            THEN /\ wpc' = [wpc EXCEPT ![s] = "queued"]
                 /\ retries' = [retries EXCEPT ![s] = @ + 1]
            ELSE /\ wpc' = wpc
                 /\ retries' = retries
  /\ UNCHANGED <<table, nextId, vpc, vresp, attempts, poolRest>>

\* except branch, handle_task_error: existing_form = get_form_by_task_id(task_id)
PoolErrorFind(c) ==
  /\ calls[c].pc = "err_find"
  /\ LET s == calls[c].tid IN
       /\ calls' = [calls EXCEPT ![c] =
                      Attempt(s, "err_write", calls[c].progress,
                              GetFormByTaskId(table, TaskIdOf(s)))]
       /\ wpc' = wpc
       /\ retries' = retries
  /\ UNCHANGED <<table, nextId, vpc, vresp, attempts, poolRest>>

\* except branch: the write of handle_task_error, then self.retry(...), which
\* sends the message again, or the final `raise exc`; the process is free
PoolErrorWrite(c) ==
  /\ calls[c].pc = "err_write"
  /\ LET s == calls[c].tid IN
       /\ table' = HandleTaskErrorWrite(table, nextId, TaskIdOf(s), MetaOf(s),
                                        ErrorProgress(calls[c].progress),
                                        calls[c].existing)
       /\ nextId' = IdAfter(table, table', nextId)
       /\ IF MayRetry(retries[s])
            THEN /\ wpc' = [wpc EXCEPT ![s] = "queued"]
                 /\ retries' = [retries EXCEPT ![s] = @ + 1]
            ELSE /\ wpc' = [wpc EXCEPT ![s] = "failed"]
                 /\ retries' = retries
  /\ calls' = [calls EXCEPT ![c] = Idle]
  /\ UNCHANGED <<vpc, vresp, attempts, poolRest>>

NextPool ==
  \/ \E s \in Subs : PoolEnqueue(s)
  \/ \E c \in Callers, s \in Subs : PoolBegin(c, s)
  \/ \E c \in Callers : PoolStepOk(c)
  \/ \E c \in Callers : PoolStepRaises(c)
  \/ \E c \in Callers : PoolSuccess(c)
  \/ \E c \in Callers : PoolRequestRaises(c)
  \/ \E c \in Callers : PoolErrorFind(c)
  \/ \E c \in Callers : PoolErrorWrite(c)

SpecPool == InitRace /\ [][NextPool]_vars

\* the worker and the queue are scheduled fairly
WorkerNext(s) ==
  \/ WorkerBegin(s) \/ WorkerStepOk(s) \/ WorkerStepRaises(s) \/ WorkerRequestRaises(s)
  \/ WorkerSuccess(s) \/ WorkerErrorFind(s) \/ WorkerErrorWrite(s)

FairSpec == Spec /\ \A s \in Subs : WF_vars(WorkerNext(s))

\* ------------------------------------------------ steps named by the claims
\* a start for the task id of submission s is applied in this step
StartIssued(s) == vpc[s] = "start_write" /\ vpc'[s] = "enqueue"

\* the worker of submission s makes a progress call in this step
ProgressCall(s) == wpc[s] = "run" /\ step'[s] = step[s] + 1

\* the progress call is the first one of a retry attempt
FirstOfRetry(s) == ProgressCall(s) /\ step[s] = 0 /\ retries[s] > 0

\* the step is the first write of a retry attempt: its first progress call, or
\* its error call when that progress call raised
FirstWriteOfRetry(s) ==
  \/ FirstOfRetry(s)
  \/ retries[s] > 0 /\ wpc[s] = "err_write" /\ step[s] = 1 /\ wpc'[s] # "err_write"

\* row i of the table before the step is row j of the table after it
SameRow(i, j) == table[i].id = table'[j].id

\* the task of submission s is no longer executed or queued
Stopped(s) == wpc[s] \in {"succeeded", "failed"}

RowsTerminal(t) == \A i \in RowsOf(table, t) : table[i].status \in {StDone, StFailed}

\* ------------------------------------------------------------------ C3
\* C3 as stated: a failed row stays failed until a start is issued for its
\* task id, and a progress call is applied only to a row in progress, over the
\* whole worker run with its retries.
C3_FailedUntilStart ==
  [][\A s \in Subs :
       /\ \A i \in RowsOf(table, TaskIdOf(s)), j \in DOMAIN table' :
            (SameRow(i, j) /\ table[i].status = StFailed /\ table'[j].status # StFailed)
              => StartIssued(s)
       /\ ProgressCall(s) =>
            \A i \in RowsOf(table, TaskIdOf(s)) : table[i].status = StInProgress]_vars

\* C3 amended: a failed row stays failed until a start is issued for its task
\* id or a retry attempt of its task makes its first progress call; a progress
\* call is applied only to a row in progress, except that first call of a
\* retry attempt, which is applied to the failed row the attempt before left.
C3_FailedUntilStartOrRetry ==
  [][\A s \in Subs :
       /\ \A i \in RowsOf(table, TaskIdOf(s)), j \in DOMAIN table' :
            (SameRow(i, j) /\ table[i].status = StFailed /\ table'[j].status # StFailed)
              => (StartIssued(s) \/ FirstOfRetry(s))
       /\ ProgressCall(s) =>
            \A i \in RowsOf(table, TaskIdOf(s)) :
              \/ table[i].status = StInProgress
              \/ table[i].status = StFailed /\ FirstOfRetry(s)]_vars

\* a retry attempt has written progress to the row the failed attempt left
C3_Witness ==
  \E s \in Subs :
    /\ retries[s] > 0 /\ wpc[s] = "run" /\ step[s] = 1
    /\ \E i \in RowsOf(table, TaskIdOf(s)) :
         table[i].status = StInProgress /\ table[i].progress = Pct(1)

\* ------------------------------------------------------------------ C4
\* C4 as stated: over all worker attempts the stored progress of a row never
\* decreases from one write to the next, except by a start for its task id.
C4_ProgressMonotone ==
  [][\A s \in Subs :
       \A i \in RowsOf(table, TaskIdOf(s)), j \in DOMAIN table' :
         (SameRow(i, j) /\ table'[j].progress < table[i].progress)
           => StartIssued(s)]_vars

\* C4 amended: the stored progress of a row decreases from one write to the
\* next only by a start for its task id or by the first write of a retry
\* attempt, which begins the step sequence again; within one attempt it never
\* decreases.
C4_ProgressMonotoneInAttempt ==
  [][\A s \in Subs :
       \A i \in RowsOf(table, TaskIdOf(s)), j \in DOMAIN table' :
         (SameRow(i, j) /\ table'[j].progress < table[i].progress)
           => (StartIssued(s) \/ FirstWriteOfRetry(s))]_vars

\* a retry attempt has begun again below the progress the failed attempt left,
\* and has gone on
C4_Witness ==
  \E s \in Subs :
    /\ retries[s] = 1 /\ wpc[s] = "run" /\ step[s] = 2
    /\ lastEdit[TaskIdOf(s)] = None /\ clientOps = 0 /\ nextId = 2
    /\ \E i \in RowsOf(table, TaskIdOf(s)) : table[i].progress = Pct(2)

C9_StartFailureSwallowed ==
  \A s \in Subs :
    (startFailed[s] /\ vpc[s] = "done") =>
      /\ vresp[s] = 202
      /\ celery => wpc[s] # "none"

\* a submission whose start raised was answered, its task runs and no row
\* was created
C9_Witness ==
  \E s \in Subs :
    /\ startFailed[s] /\ vpc[s] = "done" /\ vresp[s] = 202
    /\ wpc[s] = "run"
    /\ RowsOf(table, TaskIdOf(s)) = {}

\* the row the last call of the harness aims at: progress, status, result
Target(last) ==
  CASE last.op = "start" -> <<0, StInProgress, "">>
    [] last.op = "progress" -> <<last.progress, StInProgress, "">>
    [] last.op = "success" -> <<100, StDone, WorkerResult(last.tid)>>
    [] last.op = "error" -> <<last.progress, StFailed, "">>
    [] OTHER -> NoWrite

\* the store holds exactly one row of task id t, with these fields
OneRow(tbl, t, fields) ==
  /\ Cardinality(RowsOf(tbl, t)) = 1
  /\ \A i \in RowsOf(tbl, t) :
       <<tbl[i].progress, tbl[i].status, tbl[i].llm_content>> = fields

Lifecycle == {"start", "progress", "success", "error"}

\* ------------------------------------------------------------------ C1
\* C1: the store holds at most one row per task id, whatever the interleaving
\* of concurrent handle_task_start and handle_task_error calls.
C1_UniqueTaskId ==
  \A t \in TaskIds : Cardinality(RowsOf(table, t)) <= 1

\* ------------------------------------------------------------------ C2
\* C2 as stated: on a task id that has no row, each of start, progress,
\* success and error leaves exactly one row of that task id, in the target
\* state of the transition.
C2_AllUpsert ==
  (lastOp.op \in Lifecycle /\ lastOp.before = 0)
    => OneRow(table, lastOp.tid, Target(lastOp))

\* C2 amended: start and error are upserts keyed by task id: on a task id that
\* has no row each leaves exactly one row of it in its target state (in
\* progress at 0%, failed at pct); progress and success are plain updates: on
\* a task id that has no row they insert nothing and leave the store as it
\* was; on a task id that has one row, each of the four leaves that one row in
\* its target state.
C2_StartErrorUpsert ==
  [][(ncalls' = ncalls + 1 /\ lastOp'.op \in Lifecycle) =>
       LET op == lastOp' IN
         /\ (op.op \in {"start", "error"} /\ op.before = 0)
              => OneRow(table', op.tid, Target(op)) /\ Len(table') = Len(table) + 1
         /\ (op.op \in {"progress", "success"} /\ op.before = 0)
              => table' = table
         /\ op.before = 1
              => OneRow(table', op.tid, Target(op)) /\ Len(table') = Len(table)]_vars

\* an error call on a task id without a row has created its failed row
C2_Witness ==
  /\ lastOp.op = "error" /\ lastOp.before = 0
  /\ OneRow(table, lastOp.tid, <<lastOp.progress, StFailed, "">>)

\* ------------------------------------------------------------------ C6
\* C6: two start calls in sequence with the same task id leave exactly one row
\* of it, in progress at 0%, whether or not a row existed before and whatever
\* it held.
C6_StartTwice ==
  (lastOp.op = "start" /\ lastOp.prev = "start" /\ lastOp.ptid = lastOp.tid)
    => OneRow(table, lastOp.tid, <<0, StInProgress, "">>)

\* start was called twice on a row that existed before and had been edited
C6_Witness ==
  /\ ncalls = 2
  /\ lastOp.op = "start" /\ lastOp.prev = "start" /\ lastOp.ptid = lastOp.tid
  /\ \E i \in RowsOf(table, lastOp.tid) :
       table[i].update_content = "x" /\ table[i].status = StInProgress

\* ------------------------------------------------------------------ C8
\* C8: in every reachable state, whatever the interleaving of the lifecycle
\* writes, a row holds a result only if it is completed, and a completed row
\* is at 100%.
C8_ResultOnlyWhenDone ==
  \A i \in DOMAIN table :
    /\ table[i].llm_content # "" => table[i].status = StDone
    /\ table[i].status = StDone => table[i].progress = 100

\* a start was applied to a completed row and left no result in it
C8_Witness ==
  /\ lastOp.op = "start" /\ lastOp.prev = "success" /\ lastOp.ptid = lastOp.tid
  /\ lastOp.before = 1
  /\ \E i \in RowsOf(table, lastOp.tid) :
       table[i].status = StInProgress /\ table[i].llm_content = ""

\* ----------------------------------------------------------------- C11
\* the worker's handle_task_progress call of this step returned
ProgressReturned(s) == ProgressCall(s) /\ reported'[s] # reported[s]

\* the worker's handle_task_error call wrote in this step
ErrorWritten(s) == wpc[s] = "err_write" /\ wpc'[s] \in {"queued", "failed"}

\* the worker's handle_task_success call wrote in this step
SuccessWritten(s) == wpc[s] = "run" /\ wpc'[s] = "succeeded"

\* C11: during one worker attempt the progress values written are
\* non-decreasing; an attempt that ends in success writes 100% last, and an
\* attempt that ends in failure writes last the progress most recently reported
\* by a progress call of the attempt that succeeded.
C11_AttemptProgress ==
  [][\A s \in Subs :
       /\ (ProgressReturned(s) /\ reported[s] # <<>>)
            => reported'[s][1] >= reported[s][1]
       /\ SuccessWritten(s)
            => \A j \in RowsOf(table', TaskIdOf(s)) : table'[j].progress = 100
       /\ (ErrorWritten(s) /\ reported[s] # <<>>)
            => \A j \in RowsOf(table', TaskIdOf(s)) :
                 table'[j].progress = reported[s][1]]_vars

C14_NotFoundIffNoRow ==
  (req.op = "update" /\ resp.code # 400) =>
    /\ (resp.code = 404) <=> ~req.existed
    /\ req.existed => resp.code = 200

\* ----------------------------------------------------------------- C15
\* C15: for a list naming N distinct task ids that have a row and M that have
\* none, delete_forms_batch reports N, removes the rows of those N ids and
\* leaves every other row as it was.
C15_BatchDelete ==
  [][(req'.op = "delete_batch" /\ ncalls' = ncalls + 1) =>
       LET named == Range(req'.ids)
           N == Cardinality({t \in named : RowsOf(table, t) # {}})
       IN /\ resp'.deleted = N
          /\ Len(table') = Len(table) - N
          /\ \A i \in DOMAIN table :
               IF table[i].task_id \in named
                 THEN \A j \in DOMAIN table' : table'[j].id # table[i].id
                 ELSE \E j \in DOMAIN table' : table'[j] = table[i]]_vars

\* a list of two ids that had a row and one id that had none was served: two
\* rows were reported and the store is empty
C15_Witness ==
  /\ req.op = "delete_batch" /\ Len(req.ids) = 3
  /\ Cardinality(req.had) = 2 /\ Cardinality(Range(req.ids)) = 3
  /\ resp.deleted = 2 /\ table = <<>>

\* ----------------------------------------------------------------- C16
\* the upload set is a contract file alone, 1 to 30 images alone, or both
UploadModes(r) ==
  LET n == Len(r.png_files) IN
    \/ r.pdf_file # NoFile /\ n = 0
    \/ r.pdf_file = NoFile /\ n >= 1 /\ n <= MaxImages
    \/ r.pdf_file # NoFile /\ n >= 1 /\ n <= MaxImages

IsPdfName(name) == EndsWith(LowerName(name), ExtPdf)

IsImageName(name) == \E ext \in img_extensions : EndsWith(LowerName(name), ext)

WriteOps == {"insert", "status", "content", "delete", "delete_batch"}

Contains(str, sub) ==
  \E i \in 1..(Len(str) + 1) :
    i + Len(sub) - 1 <= Len(str) /\ SubSeq(str, i, i + Len(sub) - 1) = sub

Ceil(a, b) == IF a % b = 0 THEN a \div b ELSE a \div b + 1

\* the rows of the store whose task_name contains name and whose company is
\* company, in insertion order
SubstringMatches(name, company) ==
  SelectSeq(table, LAMBDA r : Contains(r.meta.task_name, name) /\ r.meta.company = company)

\* C18: for a task_name and a company, query_forms returns as total the
\* number of rows whose task_name contains the given substring and whose
\* company is the given one, as total_pages ceil(total / page_size), and as
\* data the rows at positions (page-1)*page_size .. page*page_size - 1 of
\* those rows in descending order of creation time; with no matching row it
\* returns total 0 and no data.
C18_QueryForms ==
  (req.op = "query" /\ req.task_name # NoName /\ req.company # None) =>
    LET m == SubstringMatches(req.task_name, req.company)
        r == resp.result
    IN /\ r.total = Len(m)
       /\ r.total_pages = Ceil(Len(m), req.page_size)
       /\ \E ordered \in OrderByCreateTimeDesc(m) :
            /\ Len(r.data) = Len(LimitOffset(ordered, req.page_size,
                                             (req.page - 1) * req.page_size))
            /\ \A i \in DOMAIN r.data :
                 r.data[i].id = ordered[(req.page - 1) * req.page_size + i].id
       /\ Len(m) = 0 => r.total = 0 /\ r.data = <<>>

\* ----------------------------------------------------------------- C19
\* C19: get_all_tasks with any combination of the status, company, scene and
\* created-on-or-before filters does not fail, and returns the page of the
\* rows that match every given filter with a total equal to their number.
C19_GetAllTasks ==
  req.op = "list" =>
    LET m == SelectSeq(table, LAMBDA r :
                 /\ req.status # None => r.status = req.status
                 /\ req.company # None => r.meta.company = req.company
                 /\ req.scene # None => r.meta.scene = req.scene
                 /\ req.create_time # 0 => r.create_time <= req.create_time)
        r == resp.result
    IN /\ ~r.raised
       /\ r.pagination.total = Len(m)
       /\ \E ordered \in OrderByCreateTimeDesc(m) :
            r.data = LimitOffset(ordered, req.page_size, (req.page - 1) * req.page_size)

\* ----------------------------------------------------------------- C20
\* C20: every documented route reaches its documented view with arguments the
\* view accepts: a DELETE request to forms/delete-batch/ is dispatched to
\* delete_forms_batch and not to a view of forms/<task_id>/, and a POST to
\* forms/<task_id>/update/ is dispatched to update_form_content and is
\* answered 200 or 404.
C20_RoutesReachViews ==
  req.op = "route" =>
    /\ (req.method = "DELETE" /\ req.path = <<"forms", "delete-batch">>)
         => resp.view = "delete_forms_batch"
    /\ (req.method = "POST" /\ Len(req.path) = 3 /\ req.path[1] = "forms"
          /\ req.path[3] = "update")
         => resp.view = "update_form_content" /\ resp.code \in {200, 404}

\* ----------------------------------------------------------------- C21
\* the except branch of the worker is left in this step
ExceptLeft(s) ==
  /\ wpc[s] \in {"err_find", "err_write"}
  /\ wpc'[s] \notin {"err_find", "err_write"}

\* C21: an attempt that raised while fewer than max_retries retries were made
\* leaves its except branch only by the write of handle_task_error (failed,
\* with the progress of the attempt) followed by one retry: the task is queued
\* again and its retry count is one higher; this also when a store operation
\* of handle_task_error fails.
C21_ErrorThenOneRetry ==
  [][\A s \in Subs :
       (ExceptLeft(s) /\ retries[s] < max_retries) =>
         /\ wpc'[s] = "queued"
         /\ retries'[s] = retries[s] + 1
         /\ \A j \in RowsOf(table', TaskIdOf(s)) :
              /\ table'[j].status = StFailed
              /\ table'[j].progress = ErrorProgress(step[s])]_vars

\* ----------------------------------------------------------------- C22
\* C22: attempts of one task are serialized: while a message of the task is
\* in the broker (the first delivery or a retry) no process is executing an
\* attempt of that task, so no two processes ever execute attempts of the same
\* task at once and their writes to the row cannot interleave.
C22_AttemptsSerialized ==
  /\ \A s \in Subs, c \in Callers :
       wpc[s] = "queued" => ~(Executing(c) /\ calls[c].tid = s)
  /\ \A c, d \in Callers :
       (c # d /\ Executing(c) /\ Executing(d)) => calls[c].tid # calls[d].tid

\* a retry attempt is writing progress over the row its failed predecessor left
C22_Witness ==
  \E c \in Callers :
    /\ calls[c].pc = "run"
    /\ calls[c].progress >= 1
    /\ retries[calls[c].tid] >= 1
    /\ attempts[calls[c].tid] = retries[calls[c].tid] + 1
    /\ \E i \in RowsOf(table, TaskIdOf(calls[c].tid)) :
         table[i].status = StInProgress

\* ----------------------------------------------------------------- C23
\* the task of submission s has no row
Absent(tbl, s) == RowsOf(tbl, TaskIdOf(s)) = {}

EnqueueFailed(s) ==
  /\ vpc[s] = "enqueue" /\ vpc'[s] = "done"
  /\ celery
  /\ wpc'[s] # "queued"

\* C24: when the enqueue raises something other than ImportError after start
\* has written its row, the request is answered with an error status, not 202,
\* and a body without task_id; from then on no worker task exists for the
\* task, and its row, unless a client deletes it, stays in progress at 0%
\* with no result.
C24_EnqueueFailure ==
  /\ [][\A s \in Subs :
          EnqueueFailed(s) =>
            /\ vresp'[s] >= 400
            /\ "task_id" \notin StartResponseKeys(vresp'[s])]_vars
  /\ [](\A s \in Subs :
          (vpc[s] = "done" /\ vresp[s] = 500) =>
            /\ wpc[s] = "none"
            /\ attempts[s] = 0
            /\ \A j \in RowsOf(table, TaskIdOf(s)) :
                 /\ table[j].status = StInProgress
                 /\ table[j].progress = 0
                 /\ table[j].llm_content = ""
            /\ Absent(table, s) => lastWrite[TaskIdOf(s)] = NoWrite)

\* the enqueue has failed, a client has edited the content since, and the row
\* start created is still there
C24_Witness ==
  \E s \in Subs :
    /\ vpc[s] = "done" /\ vresp[s] = 500
    /\ clientOps >= 1
    /\ \E j \in RowsOf(table, TaskIdOf(s)) : table[j].update_content = "x"

====
